---- MODULE Spec2Model ----
(***************************************************************************)
(* A model of nix's src/sys/mman.rs: the flag / enum catalog (ProtFlags,   *)
(* MapFlags, MmapAdvise, MsFlags) and the eight syscall wrappers (mlock,   *)
(* munlock, mmap, munmap, madvise, msync, shm_open, shm_unlink).           *)
(*                                                                         *)
(* The wrappers are translated from the source.  What they call is not in  *)
(* the file and is modelled beside them:                                   *)
(*   - the native primitives libc::mlock ... libc::shm_unlink, by their    *)
(*     documented behaviour on the Linux target (man pages, section 2 and  *)
(*     3) over a small address space, a shared-memory name space and a     *)
(*     descriptor table; what the platform leaves open is an input of the  *)
(*     operator, chosen by the environment;                                *)
(*   - Errno::result, Errno::last, NixPath::with_nix_path and the          *)
(*     libc_bitflags! / libc_enum! macros, which live elsewhere in the     *)
(*     crate.                                                              *)
(*                                                                         *)
(* Addresses and lengths are counted in units of half a page (PageSize ==  *)
(* 2), so that unaligned addresses and lengths that round up exist.        *)
(***************************************************************************)
EXTENDS Integers, Sequences, FiniteSets, TLC

VARIABLES
    mapped,       \* kernel: the pages of the process that are mapped
    locked,       \* kernel: the mapped pages that are locked in memory
    shm,          \* kernel: the names of the existing shared-memory objects
    fds,          \* kernel: the open descriptors of the process
    errno,        \* the calling thread's last-error slot ("" = never set)
    last,         \* the last wrapper call: arguments, native call, result
    ever,         \* history: pages ever mapped, names ever created
    calls,        \* history: wrapper calls made
    validCalls,   \* history: wrapper calls whose arguments were accepted
    nativeCalls,  \* history: native primitives invoked
    cat           \* the catalog's values under test: operands, operation, result

vars == <<mapped, locked, shm, fds, errno, last, ever, calls, validCalls, nativeCalls, cat>>

(***************************************************************************)
(* Bounds of the model.                                                    *)
(***************************************************************************)
NPages == 3          \* pages of the address space (page 0 holds address 0)
PageSize == 2        \* address units per page
MaxLen == 3          \* longest length passed to a wrapper
MaxCalls == 3        \* wrapper calls in one run
MaxFds == 2          \* descriptors the process may hold open
MemlockLimit == 1    \* pages the process may lock (RLIMIT_MEMLOCK)
MaxFlags == 2        \* named flags a flag-set operand is built from

(***************************************************************************)
(* Bitwise operations on non-negative c_int values.                        *)
(***************************************************************************)
RECURSIVE BitAnd(_, _)
BitAnd(a, b) ==
    IF a = 0 \/ b = 0 THEN 0
    ELSE (a % 2) * (b % 2) + 2 * BitAnd(a \div 2, b \div 2)

RECURSIVE BitOr(_, _)
BitOr(a, b) ==
    IF a = 0 THEN b
    ELSE IF b = 0 THEN a
    ELSE (IF a % 2 = 1 \/ b % 2 = 1 THEN 1 ELSE 0) + 2 * BitOr(a \div 2, b \div 2)

\* a with the bits of b cleared
BitClear(a, b) == a - BitAnd(a, b)

(***************************************************************************)
(* The native constants (libc crate), by target.                           *)
(***************************************************************************)
Targets == {"linux", "macos"}

libc_linux ==
    [ PROT_NONE |-> 0, PROT_READ |-> 1, PROT_WRITE |-> 2, PROT_EXEC |-> 4,
      PROT_GROWSDOWN |-> 16777216, PROT_GROWSUP |-> 33554432,
      MAP_FILE |-> 0, MAP_SHARED |-> 1, MAP_PRIVATE |-> 2, MAP_FIXED |-> 16,
      MAP_ANON |-> 32, MAP_ANONYMOUS |-> 32, MAP_32BIT |-> 64,
      MAP_GROWSDOWN |-> 256, MAP_DENYWRITE |-> 2048, MAP_EXECUTABLE |-> 4096,
      MAP_LOCKED |-> 8192, MAP_NORESERVE |-> 16384, MAP_POPULATE |-> 32768,
      MAP_NONBLOCK |-> 65536, MAP_STACK |-> 131072, MAP_HUGETLB |-> 262144,
      MADV_NORMAL |-> 0, MADV_RANDOM |-> 1, MADV_SEQUENTIAL |-> 2,
      MADV_WILLNEED |-> 3, MADV_DONTNEED |-> 4, MADV_FREE |-> 8,
      MADV_REMOVE |-> 9, MADV_DONTFORK |-> 10, MADV_DOFORK |-> 11,
      MADV_MERGEABLE |-> 12, MADV_UNMERGEABLE |-> 13, MADV_HUGEPAGE |-> 14,
      MADV_NOHUGEPAGE |-> 15, MADV_DONTDUMP |-> 16, MADV_DODUMP |-> 17,
      MADV_HWPOISON |-> 100, MADV_SOFT_OFFLINE |-> 101,
      MS_ASYNC |-> 1, MS_INVALIDATE |-> 2, MS_SYNC |-> 4 ]

libc_macos ==
    [ PROT_NONE |-> 0, PROT_READ |-> 1, PROT_WRITE |-> 2, PROT_EXEC |-> 4,
      MAP_FILE |-> 0, MAP_SHARED |-> 1, MAP_PRIVATE |-> 2, MAP_FIXED |-> 16,
      MAP_ANON |-> 4096, MAP_NORESERVE |-> 64, MAP_NOCACHE |-> 1024,
      MAP_JIT |-> 2048,
      MADV_NORMAL |-> 0, MADV_RANDOM |-> 1, MADV_SEQUENTIAL |-> 2,
      MADV_WILLNEED |-> 3, MADV_DONTNEED |-> 4, MADV_FREE |-> 5,
      MADV_ZERO_WIRED_PAGES |-> 6, MADV_FREE_REUSABLE |-> 7,
      MADV_FREE_REUSE |-> 8, MADV_CAN_REUSE |-> 9,
      MS_ASYNC |-> 1, MS_INVALIDATE |-> 2, MS_KILLPAGES |-> 4,
      MS_DEACTIVATE |-> 8, MS_SYNC |-> 16 ]

libc(t) == IF t = "linux" THEN libc_linux ELSE libc_macos

(***************************************************************************)
(* The flag / enum catalog.  Each list holds the names the source declares *)
(* for the target; a #[cfg] attribute is the condition on the target.      *)
(* (MAP_32BIT: the x86_64 builds.)                                         *)
(***************************************************************************)
ProtFlagsDecl(t) ==
    {"PROT_NONE", "PROT_READ", "PROT_WRITE", "PROT_EXEC"}
    \cup (IF t = "linux" THEN {"PROT_GROWSDOWN", "PROT_GROWSUP"} ELSE {})

MapFlagsDecl(t) ==
    {"MAP_FILE", "MAP_SHARED", "MAP_PRIVATE", "MAP_FIXED", "MAP_ANON"}
    \cup (IF t = "linux"
          THEN {"MAP_ANONYMOUS", "MAP_32BIT", "MAP_GROWSDOWN", "MAP_DENYWRITE",
                "MAP_EXECUTABLE", "MAP_LOCKED", "MAP_POPULATE", "MAP_NONBLOCK",
                "MAP_HUGETLB", "MAP_STACK"}
          ELSE {})
    \cup {"MAP_NORESERVE"}
    \cup (IF t = "macos" THEN {"MAP_NOCACHE", "MAP_JIT"} ELSE {})

MmapAdviseDecl(t) ==
    {"MADV_NORMAL", "MADV_RANDOM", "MADV_SEQUENTIAL", "MADV_WILLNEED",
     "MADV_DONTNEED", "MADV_FREE"}
    \cup (IF t = "linux"
          THEN {"MADV_REMOVE", "MADV_DONTFORK", "MADV_DOFORK", "MADV_HWPOISON",
                "MADV_MERGEABLE", "MADV_UNMERGEABLE", "MADV_SOFT_OFFLINE",
                "MADV_HUGEPAGE", "MADV_NOHUGEPAGE", "MADV_DONTDUMP",
                "MADV_DODUMP"}
          ELSE {})
    \cup (IF t = "macos"
          THEN {"MADV_ZERO_WIRED_PAGES", "MADV_FREE_REUSABLE", "MADV_FREE_REUSE",
                "MADV_CAN_REUSE"}
          ELSE {})

MsFlagsDecl(t) ==
    {"MS_ASYNC", "MS_INVALIDATE", "MS_SYNC"}
    \cup (IF t = "macos" THEN {"MS_KILLPAGES", "MS_DEACTIVATE"} ELSE {})

FlagTypes == {"ProtFlags", "MapFlags", "MsFlags"}

Decl(t, ty) ==
    CASE ty = "ProtFlags" -> ProtFlagsDecl(t)
      [] ty = "MapFlags" -> MapFlagsDecl(t)
      [] ty = "MsFlags" -> MsFlagsDecl(t)
      [] ty = "MmapAdvise" -> MmapAdviseDecl(t)

\* A flag-set value is the struct the macro generates around a c_int.
\* `NAME;` in a libc_bitflags! block declares the constant NAME with the
\* bits of libc::NAME.
\* (faulty variant) a constant is bound to the native constant of another name
FlagWrongName(t, name) ==
    [bits |-> libc(t)[IF name = "MAP_PRIVATE" THEN "MAP_SHARED"
                      ELSE IF name = "PROT_WRITE" THEN "PROT_READ"
                      ELSE IF name = "MS_SYNC" THEN "MS_ASYNC"
                      ELSE name]]

Flag(t, name) == [bits |-> libc(t)[name]]

empty == [bits |-> 0]

bits(f) == f.bits

\* (faulty variant) a | b toggles the bits of b in a
unionToggling(a, b) == [bits |-> a.bits + b.bits - 2 * BitAnd(a.bits, b.bits)]

\* a | b
union(a, b) == [bits |-> BitOr(a.bits, b.bits)]

\* a & b
intersection(a, b) == [bits |-> BitAnd(a.bits, b.bits)]

contains(a, b) == BitAnd(a.bits, b.bits) = b.bits

RECURSIVE UnionAll(_, _)
UnionAll(t, names) ==
    IF names = {} THEN empty
    ELSE LET n == CHOOSE x \in names : TRUE
         IN union(Flag(t, n), UnionAll(t, names \ {n}))

\* all(): every declared flag
all(t, ty) == UnionAll(t, Decl(t, ty))

\* from_bits: Some(value) unless a bit outside all() is set.  An Option is a
\* sequence of length at most one.
from_bits(t, ty, n) ==
    IF BitClear(n, all(t, ty).bits) = 0 THEN <<[bits |-> n]>> ELSE <<>>

\* `advise as i32`: the discriminant of a libc_enum! variant is libc::NAME
as_i32(t, v) == libc(t)[v]

\* the variant a raw integer stands for, if any
from_i32(t, n) ==
    LET vs == {v \in MmapAdviseDecl(t) : libc(t)[v] = n}
    IN IF vs = {} THEN <<>> ELSE <<CHOOSE v \in vs : TRUE>>

(***************************************************************************)
(* The address space.                                                      *)
(***************************************************************************)
AddrMax == NPages * PageSize - 1
Addrs == 0 .. AddrMax
Pages == 0 .. (NPages - 1)
UserPages == Pages \ {0}

\* (void *) -1, the all-ones address: the last unit of the address space
MAP_FAILED == AddrMax

Aligned(a) == a % PageSize = 0
PageDown(a) == (a \div PageSize) * PageSize
PageAlign(len) == ((len + PageSize - 1) \div PageSize) * PageSize

\* the pages of [start, start + len), start and len page multiples; a page
\* past the end of the address space is a page that is never mapped
Range(start, len) ==
    {(start \div PageSize) + i : i \in 0 .. ((len \div PageSize) - 1)}

\* the pages an unaligned request touches
Touched(addr, len) == Range(PageDown(addr), PageAlign(len + (addr - PageDown(addr))))

\* the pages of rng before its first hole
MappedPrefix(rng) == {p \in rng : \A q \in rng : q <= p => q \in mapped}

(***************************************************************************)
(* The native primitives (Linux).  Each returns its return value, the      *)
(* errno it sets ("" when it sets none: a successful call leaves errno as  *)
(* it was) and the kernel state it leaves.                                 *)
(***************************************************************************)
Outcome(ret, err, m, l, s, f) ==
    [ret |-> ret, err |-> err, mapped |-> m, locked |-> l, shm |-> s, fds |-> f]

Fails(err) == Outcome(-1, err, mapped, locked, shm, fds)

Succeeds(ret) == Outcome(ret, "", mapped, locked, shm, fds)

\* a failing call that returns a pointer returns (void *) -1
FailsPtr(err) == Outcome(MAP_FAILED, err, mapped, locked, shm, fds)

\* mlock(2): the range is widened to whole pages; ENOMEM when the lock limit
\* would be exceeded or part of the range is not mapped (the pages before
\* the first hole are locked all the same)
libc_mlock(addr, len) ==
    LET rng == Touched(addr, len)
    IN IF rng = {} THEN Succeeds(0)
       ELSE IF Cardinality(locked \cup rng) > MemlockLimit THEN Fails("ENOMEM")
       ELSE IF rng \subseteq mapped
            THEN Outcome(0, "", mapped, locked \cup rng, shm, fds)
       ELSE Outcome(-1, "ENOMEM", mapped, locked \cup MappedPrefix(rng), shm, fds)

\* munlock(2)
libc_munlock(addr, len) ==
    LET rng == Touched(addr, len)
    IN IF rng = {} THEN Succeeds(0)
       ELSE IF rng \subseteq mapped
            THEN Outcome(0, "", mapped, locked \ rng, shm, fds)
       ELSE Outcome(-1, "ENOMEM", mapped, locked \ MappedPrefix(rng), shm, fds)

\* munmap(2): EINVAL for an unaligned address, a zero length or a range that
\* leaves the address space; "it is not an error if the indicated range
\* does not contain any mapped pages"
libc_munmap(addr, len) ==
    IF ~Aligned(addr) \/ len = 0 \/ addr + len > AddrMax + 1 THEN Fails("EINVAL")
    ELSE LET rng == Range(addr, PageAlign(len))
         IN Outcome(0, "", mapped \ rng, locked \ rng, shm, fds)

\* madvise(2): EINVAL for an unaligned address, and for MADV_DONTNEED on
\* locked pages; a zero length succeeds; ENOMEM when part of the range is
\* not mapped
libc_madvise(addr, len, advice) ==
    LET rng == Range(addr, PageAlign(len))
    IN IF ~Aligned(addr) THEN Fails("EINVAL")
       ELSE IF len = 0 THEN Succeeds(0)
       ELSE IF advice = libc_linux.MADV_DONTNEED /\ rng \cap locked # {}
            THEN Fails("EINVAL")
       ELSE IF ~(rng \subseteq mapped) THEN Fails("ENOMEM")
       ELSE Succeeds(0)

\* msync(2): EINVAL for an unaligned address or MS_ASYNC with MS_SYNC; a
\* zero length succeeds; EBUSY for MS_INVALIDATE on locked pages; ENOMEM when
\* part of the range is not mapped
libc_msync(addr, len, flags) ==
    LET rng == Range(addr, PageAlign(len))
    IN IF ~Aligned(addr) THEN Fails("EINVAL")
       ELSE IF BitAnd(flags, libc_linux.MS_ASYNC) # 0 /\ BitAnd(flags, libc_linux.MS_SYNC) # 0
            THEN Fails("EINVAL")
       ELSE IF len = 0 THEN Succeeds(0)
       ELSE IF BitAnd(flags, libc_linux.MS_INVALIDATE) # 0 /\ rng \cap locked # {}
            THEN Fails("EBUSY")
       ELSE IF ~(rng \subseteq mapped) THEN Fails("ENOMEM")
       ELSE Succeeds(0)

\* the pages at which a mapping of n units may be placed by the kernel
Candidates(n) == {p \in UserPages : Range(p * PageSize, n) \subseteq (UserPages \ mapped)}

\* What the platform leaves open in a call of mmap: the place of a mapping
\* that is not MAP_FIXED (pick), whether MAP_SHARED | MAP_PRIVATE is taken
\* (as MAP_SHARED_VALIDATE) or refused (both), whether page 0 may be mapped
\* (low: vm.mmap_min_addr).
MmapEnv(addr, len, flags) ==
    LET fixed == BitAnd(flags, libc_linux.MAP_FIXED) # 0
        type == BitAnd(flags, libc_linux.MAP_SHARED + libc_linux.MAP_PRIVATE)
    IN [pick : IF ~fixed /\ Candidates(PageAlign(len)) # {}
               THEN Candidates(PageAlign(len)) ELSE {0},
        both : IF type = libc_linux.MAP_SHARED + libc_linux.MAP_PRIVATE
               THEN BOOLEAN ELSE {FALSE},
        low : IF fixed /\ addr = 0 THEN BOOLEAN ELSE {FALSE}]

\* mmap(2)
libc_mmap(addr, len, prot, flags, fd, offset, env) ==
    LET n == PageAlign(len)
        fixed == BitAnd(flags, libc_linux.MAP_FIXED) # 0
        anon == BitAnd(flags, libc_linux.MAP_ANONYMOUS) # 0
        type == BitAnd(flags, libc_linux.MAP_SHARED + libc_linux.MAP_PRIVATE)
        start == IF fixed THEN addr ELSE env.pick * PageSize
        rng == Range(start, n)
    IN IF ~Aligned(offset) THEN FailsPtr("EINVAL")
       ELSE IF ~anon /\ fd \notin fds THEN FailsPtr("EBADF")
       ELSE IF len = 0 THEN FailsPtr("EINVAL")
       ELSE IF fixed /\ ~Aligned(addr) THEN FailsPtr("EINVAL")
       ELSE IF fixed /\ ~(rng \subseteq Pages) THEN FailsPtr("ENOMEM")
       ELSE IF ~fixed /\ Candidates(n) = {} THEN FailsPtr("ENOMEM")
       ELSE IF 0 \in rng /\ ~env.low THEN FailsPtr("EPERM")
       ELSE IF type = 0 THEN FailsPtr("EINVAL")
       ELSE IF type = libc_linux.MAP_SHARED + libc_linux.MAP_PRIVATE /\ ~env.both
            THEN FailsPtr("EINVAL")
       ELSE Outcome(start, "", mapped \cup rng, locked \ rng, shm, fds)

\* the name a C string holds: the bytes before its first NUL
RECURSIVE CStrName(_)
CStrName(c) ==
    IF c = <<>> \/ Head(c) = 0 THEN <<>> ELSE <<Head(c)>> \o CStrName(Tail(c))

\* the lowest descriptor not in use (0, 1 and 2 are the standard streams)
LowestFd == CHOOSE d \in 3 .. (3 + Cardinality(fds)) :
                d \notin fds /\ \A e \in 3 .. (d - 1) : e \in fds

\* shm_open(3): EINTR when a signal interrupts it (sig), EMFILE when the
\* descriptor table is full, EEXIST for O_CREAT | O_EXCL on an existing
\* object, ENOENT for a missing object without O_CREAT
O_CREAT == 64
O_EXCL == 128
O_RDWR == 2

libc_shm_open(cstr, oflag, mode, sig) ==
    LET name == CStrName(cstr)
        creat == BitAnd(oflag, O_CREAT) # 0
        excl == BitAnd(oflag, O_EXCL) # 0
    IN IF sig THEN Fails("EINTR")
       ELSE IF Cardinality(fds) >= MaxFds THEN Fails("EMFILE")
       ELSE IF name \in shm /\ creat /\ excl THEN Fails("EEXIST")
       ELSE IF name \notin shm /\ ~creat THEN Fails("ENOENT")
       ELSE Outcome(LowestFd, "", mapped, locked, shm \cup {name}, fds \cup {LowestFd})

\* shm_unlink(3)
libc_shm_unlink(cstr) ==
    LET name == CStrName(cstr)
    IN IF name \notin shm THEN Fails("ENOENT")
       ELSE Outcome(0, "", mapped, locked, shm \ {name}, fds)

(***************************************************************************)
(* Result, Errno and NixPath (the crate's, outside this file).             *)
(***************************************************************************)
Ok(v) == [tag |-> "Ok", val |-> v]
OkUnit == [tag |-> "Ok", unit |-> TRUE]
ErrSys(e) == [tag |-> "Err", kind |-> "Sys", errno |-> e]
ErrInvalidPath == [tag |-> "Err", kind |-> "InvalidPath"]

\* Errno::last(), read right after the native call whose outcome is r
Errno_last(r) == IF r.err = "" THEN errno ELSE r.err

\* Errno::result(value): Err(Sys(Errno::last())) when value is -1
Errno_result(r) == IF r.ret = -1 THEN ErrSys(Errno_last(r)) ELSE Ok(r.ret)

\* Result::map(drop)
map_drop(res) == IF res.tag = "Ok" THEN OkUnit ELSE res

\* NixPath: a name with an embedded NUL is refused; any other is handed to
\* the closure as a C string, the name followed by a NUL
HasNul(name) == \E i \in 1 .. Len(name) : name[i] = 0
CStr(name) == name \o <<0>>

(***************************************************************************)
(* The wrappers.  Each yields what the call did: the arguments given to    *)
(* the native primitive (nargs), the native invocations made (n), the      *)
(* outcome of the last of them (r), whether the arguments were accepted    *)
(* (valid), and the Result returned (res).                                 *)
(***************************************************************************)
Did(nargs, r, res) == [nargs |-> nargs, n |-> 1, r |-> r, valid |-> TRUE, res |-> res]

Refused(res) == [nargs |-> <<>>, n |-> 0, r |-> Succeeds(0), valid |-> FALSE, res |-> res]

mlock(addr, length) ==
    LET r == libc_mlock(addr, length)
    IN Did(<<addr, length>>, r, map_drop(Errno_result(r)))

munlock(addr, length) ==
    LET r == libc_munlock(addr, length)
    IN Did(<<addr, length>>, r, map_drop(Errno_result(r)))

\* (faulty variant) a null address is taken for a failure as well
mmapNullIsFailure(addr, length, prot, flags, fd, offset, env) ==
    LET r == libc_mmap(addr, length, bits(prot), bits(flags), fd, offset, env)
    IN Did(<<addr, length, bits(prot), bits(flags), fd, offset>>, r,
           IF r.ret = MAP_FAILED \/ r.ret = 0 THEN ErrSys(Errno_last(r)) ELSE Ok(r.ret))

\* (faulty variant) MAP_SHARED together with MAP_PRIVATE is refused by the wrapper
mmapRefusingSharedPrivate(addr, length, prot, flags, fd, offset, env) ==
    IF contains(flags, UnionAll("linux", {"MAP_SHARED", "MAP_PRIVATE"}))
    THEN Refused(ErrSys("EINVAL"))
    ELSE LET r == libc_mmap(addr, length, bits(prot), bits(flags), fd, offset, env)
         IN Did(<<addr, length, bits(prot), bits(flags), fd, offset>>, r,
                IF r.ret = MAP_FAILED THEN ErrSys(Errno_last(r)) ELSE Ok(r.ret))

mmap(addr, length, prot, flags, fd, offset, env) ==
    LET r == libc_mmap(addr, length, bits(prot), bits(flags), fd, offset, env)
    IN Did(<<addr, length, bits(prot), bits(flags), fd, offset>>, r,
           IF r.ret = MAP_FAILED THEN ErrSys(Errno_last(r)) ELSE Ok(r.ret))

\* (faulty variant) the failure of the native call is dropped
munmapIgnoringFailure(addr, len) ==
    LET r == libc_munmap(addr, len)
    IN Did(<<addr, len>>, r, OkUnit)

\* (faulty variant) the arguments reach the native call in the wrong order
munmapSwapped(addr, len) ==
    LET r == libc_munmap(len, addr)
    IN Did(<<len, addr>>, r, map_drop(Errno_result(r)))

munmap(addr, len) ==
    LET r == libc_munmap(addr, len)
    IN Did(<<addr, len>>, r, map_drop(Errno_result(r)))

\* (faulty variant) errno decides instead of the return value
madviseByErrno(addr, length, advise) ==
    LET r == libc_madvise(addr, length, as_i32("linux", advise))
    IN Did(<<addr, length, as_i32("linux", advise)>>, r,
           IF Errno_last(r) # "" THEN ErrSys(Errno_last(r)) ELSE OkUnit)

madvise(addr, length, advise) ==
    LET r == libc_madvise(addr, length, as_i32("linux", advise))
    IN Did(<<addr, length, as_i32("linux", advise)>>, r, map_drop(Errno_result(r)))

msync(addr, length, flags) ==
    LET r == libc_msync(addr, length, bits(flags))
    IN Did(<<addr, length, bits(flags)>>, r, map_drop(Errno_result(r)))

\* (faulty variant) an interrupted call is made again
shm_openRetrying(name, flag, mode, sig) ==
    IF HasNul(name) THEN Refused(ErrInvalidPath)
    ELSE LET r1 == libc_shm_open(CStr(name), flag, mode, sig)
             r == IF r1.err = "EINTR" THEN libc_shm_open(CStr(name), flag, mode, FALSE) ELSE r1
         IN [Did(<<CStr(name), flag, mode>>, r, Errno_result(r))
                EXCEPT !.n = IF r1.err = "EINTR" THEN 2 ELSE 1]

\* (faulty variant) the path error is replaced by the last system error
shm_openPathAsSys(name, flag, mode, sig) ==
    IF HasNul(name) THEN Refused(ErrSys(errno))
    ELSE LET r == libc_shm_open(CStr(name), flag, mode, sig)
         IN Did(<<CStr(name), flag, mode>>, r, Errno_result(r))

shm_open(name, flag, mode, sig) ==
    IF HasNul(name) THEN Refused(ErrInvalidPath)
    ELSE LET r == libc_shm_open(CStr(name), flag, mode, sig)
         IN Did(<<CStr(name), flag, mode>>, r, Errno_result(r))

\* (faulty variant) the result of the native call is dropped
shm_unlinkIgnoringFailure(name) ==
    IF HasNul(name) THEN Refused(ErrInvalidPath)
    ELSE LET r == libc_shm_unlink(CStr(name))
         IN Did(<<CStr(name)>>, r, OkUnit)

shm_unlink(name) ==
    IF HasNul(name) THEN Refused(ErrInvalidPath)
    ELSE LET r == libc_shm_unlink(CStr(name))
         IN Did(<<CStr(name)>>, r, map_drop(Errno_result(r)))

(***************************************************************************)
(* The inputs of the calls.                                                *)
(***************************************************************************)
\* names, as bytes: "a", "b", and two with an embedded NUL, "a\0" and "\0a"
NameInputs == {<<97>>, <<98>>, <<97, 0>>, <<0, 97>>}
LenInputs == 0 .. MaxLen
FdInputs == {-1, 3}
OffsetInputs == {0, 1}
ModeInputs == {384}
OFlagInputs == {O_RDWR, O_RDWR + O_CREAT, O_RDWR + O_CREAT + O_EXCL}
AdviseInputs == {"MADV_NORMAL", "MADV_DONTNEED"}

FlagsOf(names) == UnionAll("linux", names)

ProtInputs == {FlagsOf({"PROT_NONE"}), FlagsOf({"PROT_READ", "PROT_WRITE"})}
MapInputs == {FlagsOf(S) : S \in SUBSET {"MAP_SHARED", "MAP_PRIVATE", "MAP_FIXED", "MAP_ANON"}}
\* the addresses a run of several calls draws from: null, the first two user
\* pages, an unaligned address
AddrInputs == {0, PageSize, PageSize + 1, 2 * PageSize}

\* the calls of mmap a run of several calls draws from: address hint, flags
\* and descriptor of an anonymous private mapping, of one at a fixed address
\* (a user page, an unaligned address, the null page) and of a shared
\* mapping of a descriptor
SomeMmapInputs ==
    {<<0, FlagsOf({"MAP_PRIVATE", "MAP_ANON"}), -1>>,
     <<PageSize, FlagsOf({"MAP_PRIVATE", "MAP_ANON", "MAP_FIXED"}), -1>>,
     <<PageSize + 1, FlagsOf({"MAP_PRIVATE", "MAP_ANON", "MAP_FIXED"}), -1>>,
     <<0, FlagsOf({"MAP_PRIVATE", "MAP_ANON", "MAP_FIXED"}), -1>>,
     <<0, FlagsOf({"MAP_SHARED"}), 3>>}
MsInputs == {FlagsOf({"MS_ASYNC"}), FlagsOf({"MS_SYNC", "MS_ASYNC"}),
             FlagsOf({"MS_SYNC", "MS_INVALIDATE"})}

(***************************************************************************)
(* The state machine: a caller making one wrapper call after another.      *)
(***************************************************************************)
NoCall ==
    [op |-> "none", args |-> <<>>, nargs |-> <<>>, n |-> 0, valid |-> FALSE,
     env |-> <<>>, ret |-> 0, nerr |-> "", res |-> OkUnit,
     pre |-> [mapped |-> {}, locked |-> {}, shm |-> {}, fds |-> {}, errno |-> ""]]

NoCat == [op |-> "none"]

Init ==
    /\ mapped = {}
    /\ locked = {}
    /\ shm = {}
    /\ fds = {}
    /\ errno = ""
    /\ last = NoCall
    /\ ever = [pages |-> {}, names |-> {}]
    /\ calls = 0
    /\ validCalls = 0
    /\ nativeCalls = 0
    /\ cat = NoCat

\* the caller makes the call `op` with `args` while the environment does
\* `env`, and the call does `d`
Call(op, args, env, d) ==
    /\ calls < MaxCalls
    /\ mapped' = d.r.mapped
    /\ locked' = d.r.locked
    /\ shm' = d.r.shm
    /\ fds' = d.r.fds
    /\ errno' = Errno_last(d.r)
    /\ last' = [op |-> op, args |-> args, nargs |-> d.nargs, n |-> d.n,
                valid |-> d.valid, env |-> env, ret |-> d.r.ret, nerr |-> d.r.err, res |-> d.res,
                pre |-> [mapped |-> mapped, locked |-> locked, shm |-> shm,
                         fds |-> fds, errno |-> errno]]
    /\ ever' = [pages |-> ever.pages \cup d.r.mapped, names |-> ever.names \cup d.r.shm]
    /\ calls' = calls + 1
    /\ validCalls' = validCalls + (IF d.valid THEN 1 ELSE 0)
    /\ nativeCalls' = nativeCalls + d.n
    /\ UNCHANGED cat

CallMlock ==
    \E addr \in AddrInputs, len \in LenInputs :
        Call("mlock", <<addr, len>>, <<>>, mlock(addr, len))

CallMunlock ==
    \E addr \in AddrInputs, len \in LenInputs :
        Call("munlock", <<addr, len>>, <<>>, munlock(addr, len))

CallMmap ==
    \E c \in SomeMmapInputs, len \in LenInputs :
        \E env \in MmapEnv(c[1], len, bits(c[2])) :
            Call("mmap", <<c[1], len, FlagsOf({"PROT_READ", "PROT_WRITE"}), c[2], c[3], 0>>, env,
                 mmap(c[1], len, FlagsOf({"PROT_READ", "PROT_WRITE"}), c[2], c[3], 0, env))

CallMunmap ==
    \E addr \in AddrInputs, len \in LenInputs :
        Call("munmap", <<addr, len>>, <<>>, munmap(addr, len))

CallMadvise ==
    \E addr \in AddrInputs, len \in LenInputs, advise \in AdviseInputs :
        Call("madvise", <<addr, len, advise>>, <<>>, madvise(addr, len, advise))

CallMsync ==
    \E addr \in AddrInputs, len \in LenInputs, flags \in MsInputs :
        Call("msync", <<addr, len, flags>>, <<>>, msync(addr, len, flags))

CallShmOpen ==
    \E name \in NameInputs, flag \in OFlagInputs, mode \in ModeInputs, sig \in BOOLEAN :
        Call("shm_open", <<name, flag, mode>>, [sig |-> sig], shm_open(name, flag, mode, sig))

CallShmUnlink ==
    \E name \in NameInputs :
        Call("shm_unlink", <<name>>, <<>>, shm_unlink(name))

Next ==
    \/ CallMlock
    \/ CallMunlock
    \/ CallMmap
    \/ CallMunmap
    \/ CallMadvise
    \/ CallMsync
    \/ CallShmOpen
    \/ CallShmUnlink

Spec == Init /\ [][Next]_vars

(***************************************************************************)
(* One call of mmap, with any of its arguments, made in any state of the   *)
(* kernel that earlier calls can have left.                                *)
(***************************************************************************)
InitMmap ==
    /\ mapped \in SUBSET Pages
    /\ locked \in {l \in SUBSET mapped : Cardinality(l) <= MemlockLimit}
    /\ shm = {}
    /\ fds \in {{}, {3}}
    /\ errno \in {"", "ENOENT"}
    /\ last = NoCall
    /\ ever = [pages |-> mapped, names |-> {}]
    /\ calls = 0
    /\ validCalls = 0
    /\ nativeCalls = 0
    /\ cat = NoCat

CallMmapAny ==
    /\ calls = 0
    /\ \E addr \in Addrs, len \in LenInputs, prot \in ProtInputs, flags \in MapInputs,
          fd \in FdInputs, offset \in OffsetInputs :
           \E env \in MmapEnv(addr, len, bits(flags)) :
               Call("mmap", <<addr, len, prot, flags, fd, offset>>, env,
                    mmap(addr, len, prot, flags, fd, offset, env))

NextMmap == CallMmapAny

SpecMmap == InitMmap /\ [][NextMmap]_vars

(***************************************************************************)
(* The catalog: an operation applied to values built from the flags the    *)
(* target declares.                                                        *)
(***************************************************************************)
NameSets(t, ty) == {S \in SUBSET Decl(t, ty) : Cardinality(S) <= MaxFlags}

InitFlags ==
    /\ mapped = {}
    /\ locked = {}
    /\ shm = {}
    /\ fds = {}
    /\ errno = ""
    /\ last = NoCall
    /\ ever = [pages |-> {}, names |-> {}]
    /\ calls = 0
    /\ validCalls = 0
    /\ nativeCalls = 0
    /\ \E t \in Targets :
           \/ \E ty \in FlagTypes : \E na \in NameSets(t, ty), nb \in NameSets(t, ty) :
                  cat = [op |-> "operands", target |-> t, ty |-> ty, na |-> na, nb |-> nb,
                         a |-> UnionAll(t, na), b |-> UnionAll(t, nb),
                         v |-> "MADV_NORMAL", out |-> <<>>]
           \/ \E v \in MmapAdviseDecl(t) :
                  cat = [op |-> "operands", target |-> t, ty |-> "MmapAdvise", na |-> {},
                         nb |-> {}, a |-> empty, b |-> empty, v |-> v, out |-> <<>>]

Kernel == <<mapped, locked, shm, fds, errno, last, ever, calls, validCalls, nativeCalls>>

\* a | b, b | a and a | a
CatUnion ==
    /\ cat.op = "operands"
    /\ cat.ty \in FlagTypes
    /\ cat' = [cat EXCEPT !.op = "union",
                          !.out = [ab |-> union(cat.a, cat.b), ba |-> union(cat.b, cat.a),
                                   aa |-> union(cat.a, cat.a)]]
    /\ UNCHANGED Kernel

\* a & empty() and empty() & a
CatIntersection ==
    /\ cat.op = "operands"
    /\ cat.ty \in FlagTypes
    /\ cat' = [cat EXCEPT !.op = "intersection",
                          !.out = [ae |-> intersection(cat.a, empty),
                                   ea |-> intersection(empty, cat.a)]]
    /\ UNCHANGED Kernel

\* from_bits(a.bits())
CatRoundTrip ==
    /\ cat.op = "operands"
    /\ cat.ty \in FlagTypes
    /\ cat' = [cat EXCEPT !.op = "roundtrip",
                          !.out = [raw |-> bits(cat.a),
                                   back |-> from_bits(cat.target, cat.ty, bits(cat.a))]]
    /\ UNCHANGED Kernel

\* the variant of (v as i32)
CatAdviseRoundTrip ==
    /\ cat.op = "operands"
    /\ cat.ty = "MmapAdvise"
    /\ cat' = [cat EXCEPT !.op = "roundtrip",
                          !.out = [raw |-> as_i32(cat.target, cat.v),
                                   back |-> from_i32(cat.target, as_i32(cat.target, cat.v))]]
    /\ UNCHANGED Kernel

NextFlags ==
    \/ CatUnion
    \/ CatIntersection
    \/ CatRoundTrip
    \/ CatAdviseRoundTrip

FlagSpec == InitFlags /\ [][NextFlags]_vars

(***************************************************************************)
(* Properties of the wrappers, stated on the last call made.               *)
(***************************************************************************)
ErrnoResultOps == {"mlock", "munlock", "munmap", "madvise", "msync", "shm_open", "shm_unlink"}

\* the pages the last call names with its address and length
LastRange == Touched(last.args[1], last.args[2])

\* C1: a call of mlock, munlock, munmap, madvise, msync, shm_unlink or
\* shm_open (the name accepted) returns Err(Sys(e)), e the error code its
\* own native call set, exactly when that native call returned -1; otherwise
\* it returns Ok: unit, or for shm_open the descriptor the native call
\* returned.
C1_FailureIffNativeFailure ==
    (last.op \in ErrnoResultOps /\ last.valid) =>
        /\ last.ret = -1 => (last.nerr # "" /\ last.res = ErrSys(last.nerr))
        /\ last.ret # -1 =>
               last.res = (IF last.op = "shm_open" THEN Ok(last.ret) ELSE OkUnit)

\* a failure whose code differs from the one an earlier call left behind,
\* after which the slot holds the new code
C1_Witness ==
    /\ last.op = "msync"
    /\ last.ret = -1
    /\ last.pre.errno # ""
    /\ last.pre.errno # last.nerr
    /\ last.res = ErrSys(last.nerr)

\* C3: every wrapper call with accepted arguments invokes its native
\* primitive exactly once, so the native invocations made equal the calls
\* with accepted arguments; a native call that fails with EINTR is not made
\* again, and its failure is what the caller gets.
C3_NativeCalledOnce ==
    /\ nativeCalls = validCalls
    /\ last.valid => last.n = 1
    /\ last.nerr = "EINTR" => (last.n = 1 /\ last.res = ErrSys("EINTR"))

C3_Witness ==
    /\ last.op = "shm_open"
    /\ last.nerr = "EINTR"
    /\ last.res = ErrSys("EINTR")
    /\ calls = MaxCalls
    /\ validCalls < calls
    /\ nativeCalls = validCalls

\* C10: a name the path collaborator refuses (an embedded NUL) makes
\* shm_open and shm_unlink return the path error without invoking the native
\* primitive: the shared-memory objects, the descriptors and the last-error
\* slot are as before, and the error is not a system error code.
C10_RefusedNameNoNativeCall ==
    (last.op \in {"shm_open", "shm_unlink"} /\ HasNul(last.args[1])) =>
        /\ last.res = ErrInvalidPath
        /\ last.n = 0
        /\ last.nargs = <<>>
        /\ shm = last.pre.shm
        /\ fds = last.pre.fds
        /\ errno = last.pre.errno

\* the refused name, cut at its NUL, is the name of an existing object, and
\* an earlier failure has left a code in the last-error slot
C10_Witness ==
    /\ last.op = "shm_open"
    /\ HasNul(last.args[1])
    /\ CStrName(last.args[1]) \in shm
    /\ errno # ""
    /\ last.res = ErrInvalidPath

\* the last call is a call of mmap for anonymous private read-write memory
\* of a non-zero length, placed by the kernel, at a moment when the address
\* space has room for it
IsAnonPrivateMmap ==
    /\ last.op = "mmap"
    /\ last.args[2] > 0
    /\ last.args[3] = FlagsOf({"PROT_READ", "PROT_WRITE"})
    /\ last.args[4] = FlagsOf({"MAP_PRIVATE", "MAP_ANON"})
    /\ \E p \in UserPages :
           Range(p * PageSize, PageAlign(last.args[2])) \subseteq (UserPages \ last.pre.mapped)

\* the last call names, by an aligned address and a non-zero length, a range
\* that was mapped when the call was made
OnMappedRange ==
    /\ Aligned(last.args[1])
    /\ last.args[2] > 0
    /\ LastRange \subseteq last.pre.mapped

\* the last call names, by a non-zero length, a range of which some page
\* was not mapped when the call was made
OnUnmappedRange ==
    /\ last.args[2] > 0
    /\ ~(LastRange \subseteq last.pre.mapped)

\* C4: mmap of L > 0 anonymous bytes, read-write and private, succeeds
\* (while the address space has room for L bytes) and returns an address A
\* with [A, A + L) mapped; on a range that is mapped, msync (one sync mode,
\* no page of the range locked) succeeds and munmap succeeds and unmaps it;
\* madvise on a range that is not mapped, never mapped or since unmapped,
\* fails with the error code of its native call.
C4_MapSyncUnmapAdvise ==
    /\ IsAnonPrivateMmap =>
           /\ last.res = Ok(last.ret)
           /\ Aligned(last.ret)
           /\ Range(last.ret, PageAlign(last.args[2])) \subseteq mapped
           /\ Range(last.ret, PageAlign(last.args[2])) \cap last.pre.mapped = {}
    /\ (last.op = "msync" /\ OnMappedRange /\ LastRange \cap last.pre.locked = {}
        /\ ~(contains(last.args[3], FlagsOf({"MS_ASYNC"}))
              /\ contains(last.args[3], FlagsOf({"MS_SYNC"})))) =>
           last.res = OkUnit
    /\ (last.op = "munmap" /\ OnMappedRange) =>
           (last.res = OkUnit /\ mapped = last.pre.mapped \ LastRange)
    /\ (last.op = "madvise" /\ OnUnmappedRange) =>
           (last.res.tag = "Err" /\ last.res = ErrSys(last.nerr) /\ last.nerr # "")

\* madvise fails on a range that mmap mapped and munmap has unmapped
C4_Witness ==
    /\ last.op = "madvise"
    /\ Aligned(last.args[1])
    /\ last.args[2] > 0
    /\ LastRange \subseteq ever.pages
    /\ LastRange \cap last.pre.mapped = {}
    /\ last.res = ErrSys("ENOMEM")
    /\ calls = MaxCalls

\* C5 as stated: munmap of a range no page of which is mapped (never
\* mapped, or unmapped already) fails.
C5_UnmappedMunmapFails ==
    (last.op = "munmap" /\ LastRange \cap last.pre.mapped = {}) => last.res.tag = "Err"

\* C5, amended: munmap of a range no page of which is mapped fails, with the
\* error code of its native call, exactly when the native munmap reports
\* failure, which it does for an unaligned address, a zero length or a range
\* outside the address space; for any other such range (never mapped, or
\* unmapped already) the native call succeeds, munmap returns success and
\* the mappings are as before.
C5_UnmappedMunmapAsNative ==
    (last.op = "munmap" /\ LastRange \cap last.pre.mapped = {}) =>
        /\ last.nargs = <<last.args[1], last.args[2]>>
        /\ last.res.tag = "Err" <=> last.ret = -1
        /\ last.res.tag = "Err" => last.res = ErrSys(last.nerr)
        /\ last.res.tag = "Err" <=>
               \/ ~Aligned(last.args[1])
               \/ last.args[2] = 0
               \/ last.args[1] + last.args[2] > AddrMax + 1
        /\ mapped = last.pre.mapped

\* a second munmap of a range that was mapped and is unmapped succeeds
C5_Witness ==
    /\ last.op = "munmap"
    /\ Aligned(last.args[1])
    /\ last.args[2] > 0
    /\ LastRange \subseteq ever.pages
    /\ LastRange \cap last.pre.mapped = {}
    /\ last.res = OkUnit
    /\ calls = MaxCalls

\* the name the last shm call was made with
LastName == last.args[1]

\* C6: shm_open with O_CREAT of a name under which no object exists
\* succeeds (when no signal interrupts it and a descriptor is free) and the
\* object exists; shm_unlink of the name of an existing object succeeds and
\* the object is gone; shm_unlink of a name under which no object exists,
\* such as a second shm_unlink, fails with ENOENT; and an object, once
\* created, exists until a shm_unlink of its name succeeds.
C6_Lifecycle ==
    /\ (last.op = "shm_open" /\ last.valid /\ BitAnd(last.args[2], O_CREAT) # 0
        /\ LastName \notin last.pre.shm /\ ~last.env.sig
        /\ Cardinality(last.pre.fds) < MaxFds) =>
           (last.res = Ok(last.ret) /\ last.ret \in fds /\ LastName \in shm)
    /\ (last.op = "shm_unlink" /\ last.valid /\ LastName \in last.pre.shm) =>
           (last.res = OkUnit /\ LastName \notin shm)
    /\ (last.op = "shm_unlink" /\ last.valid /\ LastName \notin last.pre.shm) =>
           (last.res = ErrSys("ENOENT") /\ shm = last.pre.shm)
    /\ \A name \in last.pre.shm :
           name \in shm \/ (last.op = "shm_unlink" /\ last.res = OkUnit /\ LastName = name)

\* the second shm_unlink of a name that was created and unlinked fails
C6_Witness ==
    /\ last.op = "shm_unlink"
    /\ last.valid
    /\ LastName \in ever.names
    /\ LastName \notin last.pre.shm
    /\ last.res = ErrSys("ENOENT")
    /\ calls = MaxCalls

(***************************************************************************)
(* Properties of mmap (SpecMmap).                                          *)
(***************************************************************************)
\* C2: mmap returns Err(Sys(e)), e the thread's last error code, exactly
\* when the native call returns MAP_FAILED; for any other return value, the
\* null address among them, it returns Ok with that very address.
C2_MmapFailureIffMapFailed ==
    last.op = "mmap" =>
        /\ last.ret = MAP_FAILED =>
               (last.nerr # "" /\ errno = last.nerr /\ last.res = ErrSys(errno))
        /\ last.ret # MAP_FAILED => last.res = Ok(last.ret)

\* the native call returns the null address while an earlier failure's code
\* is in the last-error slot, and mmap returns Ok(0)
C2_Witness ==
    /\ last.op = "mmap"
    /\ last.ret = 0
    /\ last.pre.errno # ""
    /\ last.res = Ok(0)
    /\ 0 \in mapped

\* C9: mmap neither refuses nor alters its arguments: whatever the ProtFlags
\* and MapFlags values, MAP_SHARED | MAP_PRIVATE included, the native call
\* is made, once, with the address hint, the length, the bits of prot, the
\* bits of flags, the descriptor and the offset as given, and the result
\* follows from the native return value alone.
C9_MmapPassesArguments ==
    last.op = "mmap" =>
        /\ last.n = 1
        /\ last.nargs = <<last.args[1], last.args[2], last.args[3].bits,
                          last.args[4].bits, last.args[5], last.args[6]>>
        /\ last.res = (IF last.ret = MAP_FAILED THEN ErrSys(errno) ELSE Ok(last.ret))

\* MAP_SHARED | MAP_PRIVATE | MAP_ANON reaches the native call as the bits
\* 1 + 2 + 32, and the mapping is made
C9_Witness ==
    /\ last.op = "mmap"
    /\ last.args[4] = FlagsOf({"MAP_SHARED", "MAP_PRIVATE", "MAP_ANON"})
    /\ last.nargs[4] = libc_linux.MAP_SHARED + libc_linux.MAP_PRIVATE + libc_linux.MAP_ANON
    /\ last.nargs[3] = libc_linux.PROT_READ + libc_linux.PROT_WRITE
    /\ last.res.tag = "Ok"

(***************************************************************************)
(* Properties of the catalog (FlagSpec).                                   *)
(***************************************************************************)
\* C7: for ProtFlags, MapFlags and MsFlags values a and b built from the
\* flags of the target, a | a = a and a | b = b | a, and the intersection of
\* a with the empty set is the empty set.
C7_UnionIntersectionLaws ==
    /\ cat.op = "union" => (cat.out.aa = cat.a /\ cat.out.ab = cat.out.ba)
    /\ cat.op = "intersection" => (cat.out.ae = empty /\ cat.out.ea = empty)

\* operands that overlap, neither holding the other
C7_Witness ==
    /\ cat.op = "union"
    /\ BitAnd(cat.a.bits, cat.b.bits) # 0
    /\ ~contains(cat.a, cat.b)
    /\ ~contains(cat.b, cat.a)
    /\ cat.out.ab # cat.a
    /\ cat.out.ab # cat.b

\* C8: a value built from declared flags of the target, converted to its
\* raw integer and back, is the value it was, and so is an MmapAdvise
\* variant; the raw integer of a single flag or variant is the native
\* constant of its name (0 for PROT_NONE and MAP_FILE, one and the same for
\* MAP_ANON and MAP_ANONYMOUS).
C8_RawRoundTrip ==
    cat.op = "roundtrip" =>
        IF cat.ty = "MmapAdvise"
        THEN /\ cat.out.back = <<cat.v>>
             /\ cat.out.raw = libc(cat.target)[cat.v]
        ELSE /\ cat.out.back = <<cat.a>>
             /\ \A name \in cat.na :
                    Cardinality(cat.na) = 1 => cat.out.raw = libc(cat.target)[name]

\* MAP_ANON and MAP_ANONYMOUS are one value, which comes back as it was
C8_Witness ==
    /\ cat.op = "roundtrip"
    /\ cat.na = {"MAP_ANON"}
    /\ cat.nb = {"MAP_ANONYMOUS"}
    /\ cat.a = cat.b
    /\ cat.out.raw = libc_linux.MAP_ANONYMOUS
    /\ cat.out.back = <<cat.b>>

====
